---- MODULE Spec2Model ----
(***************************************************************************)
(* PDF outline extraction: the class-based pipeline of app.py              *)
(* (PDFOutlineExtractor) and the function-based pipeline of                *)
(* simple_extractor.py (extract_pdf_outline), with the batch drivers.      *)
(*                                                                         *)
(* A text is a sequence of one-character strings.  A font size is an       *)
(* integer: the code only orders sizes and compares them for equality.     *)
(***************************************************************************)
EXTENDS Integers, Sequences, FiniteSets, TLC

VARIABLES
    impl,            \* "app" (PDFOutlineExtractor) or "simple" (extract_pdf_outline)
    pdf_path,        \* the path handed to the pipeline
    doc,             \* the parsed document: a sequence of pages, each a sequence of blocks
    pc,              \* the position of the pipeline
    handle,          \* the document handle: "none", "open" or "closed"
    page_num,        \* the page index of the extraction loop (0-based, as in the code)
    text_blocks,     \* the fragments collected so far
    font_hierarchy,  \* tier name -> font size
    title,           \* the title found by the title scan
    headings,        \* the classified headings, before deduplication
    result,          \* the value returned to the caller
    raised,          \* TRUE when an exception reached the caller
    rerun,           \* the output of the deduplication loop run on its own output
    listing,         \* batch: the names os.listdir returns
    pdf_files,       \* batch: the discovered files
    idx,             \* batch: the number of files already handled
    attempts,        \* batch: the files handed to the per-file function, in order
    returned,        \* batch: what the per-file function returned for each attempt
    written,         \* batch: the files whose output was written
    success_count,   \* batch: the running count of process_directory
    reported,        \* batch: the count logged at the end, -1 when nothing is logged
    gate_text,       \* gate: the text handed to is_potential_heading
    accepted         \* gate: what is_potential_heading returned for it

vars == <<impl, pdf_path, doc, pc, handle, page_num, text_blocks, font_hierarchy,
          title, headings, result, raised, rerun, listing, pdf_files, idx,
          attempts, returned, written, success_count, reported, gate_text,
          accepted>>

batchVars == <<listing, pdf_files, idx, attempts, returned, written,
               success_count, reported>>

gateVars == <<gate_text, accepted>>

----------------------------------------------------------------------------
(* Characters and the string methods the code calls.                       *)

Upper == {"A","B","C","D","E","F","G","H","I","J","K","L","M",
          "N","O","P","Q","R","S","T","U","V","W","X","Y","Z"}

Lower == {"a","b","c","d","e","f","g","h","i","j","k","l","m",
          "n","o","p","q","r","s","t","u","v","w","x","y","z"}

Digit == {"0","1","2","3","4","5","6","7","8","9"}

\* \s of the re module, and what str.strip() removes
Space == {" ", "\t", "\n", "\r"}

\* \w of the re module
WordChar == Upper \cup Lower \cup Digit \cup {"_"}

UpperSeq == <<"A","B","C","D","E","F","G","H","I","J","K","L","M",
              "N","O","P","Q","R","S","T","U","V","W","X","Y","Z">>

LowerSeq == <<"a","b","c","d","e","f","g","h","i","j","k","l","m",
              "n","o","p","q","r","s","t","u","v","w","x","y","z">>

\* case folding of re.IGNORECASE and of str.lower()
ToLower(c) ==
    IF c \in Upper
      THEN LowerSeq[CHOOSE i \in 1..26 : UpperSeq[i] = c]
      ELSE c

lower(t) == [i \in 1..Len(t) |-> ToLower(t[i])]

\* str.strip(): drop leading and trailing whitespace
strip(t) ==
    LET keep == {i \in 1..Len(t) : t[i] \notin Space}
    IN  IF keep = {} THEN <<>>
        ELSE LET lo == CHOOSE i \in keep : \A j \in keep : i <= j
                 hi == CHOOSE i \in keep : \A j \in keep : j <= i
             IN  SubSeq(t, lo, hi)

\* str.endswith(e) for a one-character e
endswith(t, e) == Len(t) >= 1 /\ t[Len(t)] = e

\* str.isupper(): some cased character, and no lower-case one
isupper(t) ==
    /\ \E i \in 1..Len(t) : t[i] \in Upper
    /\ \A i \in 1..Len(t) : t[i] \notin Lower

\* str.istitle(): some cased character; an upper-case character only after an
\* uncased one (or at the start), a lower-case character only after a cased one
istitle(t) ==
    LET cased(i) == i >= 1 /\ t[i] \in (Upper \cup Lower)
    IN  /\ \E i \in 1..Len(t) : cased(i)
        /\ \A i \in 1..Len(t) :
              /\ t[i] \in Upper => ~cased(i - 1)
              /\ t[i] \in Lower => cased(i - 1)

\* the length of the longest prefix of t made of characters of cls
RunLen(t, cls) ==
    LET stops == {i \in 1..Len(t) : t[i] \notin cls}
    IN  IF stops = {} THEN Len(t)
        ELSE (CHOOSE i \in stops : \A j \in stops : i <= j) - 1

\* re.match of a literal prefix, case-insensitively
StartsWithI(t, lit) ==
    /\ Len(t) >= Len(lit)
    /\ lower(SubSeq(t, 1, Len(lit))) = lower(lit)

\* re.match(r'^<lit>\d+', t, re.IGNORECASE)
StartsWithThenDigit(t, lit) ==
    /\ StartsWithI(t, lit)
    /\ Len(t) > Len(lit)
    /\ t[Len(lit) + 1] \in Digit

\* re.match(r'^\d+\.\d+', t)
MatchVersion(t) ==
    LET n == RunLen(t, Digit)
    IN  /\ n >= 1
        /\ Len(t) >= n + 2
        /\ t[n + 1] = "."
        /\ t[n + 2] \in Digit

\* re.match(r'^\w+@\w+', t)
MatchEmail(t) ==
    LET n == RunLen(t, WordChar)
    IN  /\ n >= 1
        /\ Len(t) >= n + 2
        /\ t[n + 1] = "@"
        /\ t[n + 2] \in WordChar

\* re.match(r'^[\d\s\.\-\(\)]+$', t)
MatchOnlyNumbers(t) ==
    /\ Len(t) >= 1
    /\ \A i \in 1..Len(t) : t[i] \in (Digit \cup Space \cup {".", "-", "(", ")"})

\* re.match(r'^https?://', t, re.IGNORECASE)
MatchHttp(t) ==
    \/ StartsWithI(t, <<"h","t","t","p",":","/","/">>)
    \/ StartsWithI(t, <<"h","t","t","p","s",":","/","/">>)

\* mutant: the "Page <digits>" pattern is missing from the list
MatchNonHeadingPattern_NoPage(t) ==
    \/ MatchVersion(t)
    \/ StartsWithThenDigit(t, <<"F","i","g","u","r","e"," ">>)
    \/ StartsWithThenDigit(t, <<"T","a","b","l","e"," ">>)
    \/ StartsWithI(t, <<"w","w","w",".">>)
    \/ MatchHttp(t)
    \/ MatchEmail(t)

\* the first seven entries of non_heading_patterns, shared by both gates
MatchNonHeadingPattern(t) ==
    \/ MatchVersion(t)
    \/ StartsWithThenDigit(t, <<"P","a","g","e"," ">>)
    \/ StartsWithThenDigit(t, <<"F","i","g","u","r","e"," ">>)
    \/ StartsWithThenDigit(t, <<"T","a","b","l","e"," ">>)
    \/ StartsWithI(t, <<"w","w","w",".">>)
    \/ MatchHttp(t)
    \/ MatchEmail(t)

min_heading_length == 3
max_heading_length == 200

heading_endings == {".", ":", "?", "!"}

\* mutant: the ending/upper-case/title-case rule is missing
is_potential_heading_NoCaseRule(t) ==
    IF Len(t) < min_heading_length \/ Len(t) > max_heading_length THEN FALSE
    ELSE IF MatchOnlyNumbers(t) THEN FALSE
    ELSE IF MatchNonHeadingPattern(t) THEN FALSE
    ELSE TRUE

\* PDFOutlineExtractor.is_potential_heading (font_size and flags are unused)
is_potential_heading(t) ==
    IF Len(t) < min_heading_length \/ Len(t) > max_heading_length THEN FALSE
    ELSE IF MatchOnlyNumbers(t) THEN FALSE
    ELSE IF MatchNonHeadingPattern(t) THEN FALSE
    ELSE IF /\ ~(\E e \in heading_endings : endswith(t, e))
            /\ ~isupper(t) /\ ~istitle(t) THEN FALSE
    ELSE TRUE

\* is_valid_heading of simple_extractor.py
is_valid_heading(t) ==
    IF Len(t) < 3 \/ Len(t) > 200 THEN FALSE
    ELSE IF MatchNonHeadingPattern(t) \/ MatchOnlyNumbers(t) THEN FALSE
    ELSE TRUE

\* the gate each pipeline applies
Gate(i, t) == IF i = "app" THEN is_potential_heading(t) ELSE is_valid_heading(t)

----------------------------------------------------------------------------
(* The stages of the pipeline, as operators.                               *)

\* a fragment of text_blocks, from one span on page pno (1-based)
Fragment(span, pno) ==
    [text |-> strip(span.text), font_size |-> span.size, page |-> pno]

\* the spans of one block's lines kept by `if text and len(text) >= minlen`
SpanFragments(spans, pno, minlen) ==
    SelectSeq([i \in 1..Len(spans) |-> Fragment(spans[i], pno)],
              LAMBDA b : b.text # <<>> /\ Len(b.text) >= minlen)

RECURSIVE BlockFragments(_, _, _)
\* the body of `for block in blocks`: only text blocks (type 0) are read
BlockFragments(blocks, pno, minlen) ==
    IF blocks = <<>> THEN <<>>
    ELSE (IF Head(blocks).type = 0
            THEN SpanFragments(Head(blocks).spans, pno, minlen)
            ELSE <<>>)
         \o BlockFragments(Tail(blocks), pno, minlen)

\* one iteration of `for page_num in range(len(doc))` in extract_text_blocks
app_scan_page(d, n) == BlockFragments(d[n + 1], n + 1, min_heading_length)

\* mutant: the page is stored 0-based
simple_scan_page_ZeroBased(d, n) == BlockFragments(d[n + 1], n, 3)

\* one iteration of `for page_num in range(len(doc))` in extract_pdf_outline
simple_scan_page(d, n) == BlockFragments(d[n + 1], n + 1, 3)

Max(S) == CHOOSE x \in S : \A y \in S : y <= x

RECURSIVE sorted_desc(_)
\* sorted(set(font_sizes), reverse=True)
sorted_desc(S) ==
    IF S = {} THEN <<>>
    ELSE <<Max(S)>> \o sorted_desc(S \ {Max(S)})

Tiers == <<"title", "H1", "H2", "H3">>

FontSizes(blocks) == {blocks[i].font_size : i \in 1..Len(blocks)}

\* font_size_counts[x]
font_size_count(blocks, x) ==
    Cardinality({i \in 1..Len(blocks) : blocks[i].font_size = x})

RECURSIVE SortByFrequency(_, _)
\* sorted(keys, key=lambda x: (-font_size_counts[x], -x))
SortByFrequency(S, blocks) ==
    IF S = {} THEN <<>>
    ELSE LET best == CHOOSE x \in S : \A y \in S :
                        \/ font_size_count(blocks, x) > font_size_count(blocks, y)
                        \/ /\ font_size_count(blocks, x) = font_size_count(blocks, y)
                           /\ x >= y
         IN  <<best>> \o SortByFrequency(S \ {best}, blocks)

\* sorted_sizes of analyze_font_hierarchy: computed, never read
sorted_sizes(blocks) == SortByFrequency(FontSizes(blocks), blocks)

\* mutant: the tiers are taken from the frequency ranking sorted_sizes
analyze_font_hierarchy_ByFrequency(blocks) ==
    LET ranked == sorted_sizes(blocks)
        n == IF Len(ranked) >= 4 THEN 4 ELSE Len(ranked)
    IN  [k \in {Tiers[i] : i \in 1..n} |->
            ranked[CHOOSE i \in 1..n : Tiers[i] = k]]

\* mutant: the H1 tier is taken from index 0, like the title tier
analyze_font_hierarchy_H1FromTop(blocks) ==
    LET unique_sizes == sorted_desc(FontSizes(blocks))
    IN  IF unique_sizes = <<>> THEN <<>>
        ELSE [k \in {"title", "H1"} |-> unique_sizes[1]]

\* PDFOutlineExtractor.analyze_font_hierarchy; the frequency ranking
\* sorted_sizes is computed by the code and never read
analyze_font_hierarchy(blocks) ==
    LET unique_sizes == sorted_desc(FontSizes(blocks))
        n == IF Len(unique_sizes) >= 4 THEN 4 ELSE Len(unique_sizes)
    IN  [k \in {Tiers[i] : i \in 1..n} |->
            unique_sizes[CHOOSE i \in 1..n : Tiers[i] = k]]

\* Step 2 of extract_pdf_outline
simple_font_hierarchy(blocks) ==
    LET unique_sizes == sorted_desc(FontSizes(blocks))
        has(m) == Len(unique_sizes) >= m
    IN  [k \in ((IF has(1) THEN {"title"} ELSE {}) \cup
                (IF has(2) THEN {"H1"} ELSE {}) \cup
                (IF has(3) THEN {"H2"} ELSE {}) \cup
                (IF has(4) THEN {"H3"} ELSE {})) |->
            CASE k = "title" -> unique_sizes[1]
              [] k = "H1" -> unique_sizes[2]
              [] k = "H2" -> unique_sizes[3]
              [] k = "H3" -> unique_sizes[4]]

\* the first of the indices hits, 0 when there is none
FirstIndex(hits) ==
    IF hits = {} THEN 0 ELSE CHOOSE i \in hits : \A j \in hits : i <= j

\* the last of the indices hits, 0 when there is none
LastIndex(hits) ==
    IF hits = {} THEN 0 ELSE CHOOSE i \in hits : \A j \in hits : j <= i

\* mutant: the scan does not stop at the first match
extract_title_Last(blocks, h) ==
    IF blocks = <<>> \/ "title" \notin DOMAIN h THEN <<>>
    ELSE LET i == LastIndex({k \in 1..Len(blocks) :
                         /\ blocks[k].font_size = h["title"]
                         /\ blocks[k].page = 1
                         /\ is_potential_heading(blocks[k].text)})
         IN  IF i = 0 THEN <<>> ELSE blocks[i].text

\* PDFOutlineExtractor.extract_title
extract_title(blocks, h) ==
    IF blocks = <<>> \/ "title" \notin DOMAIN h THEN <<>>
    ELSE LET i == FirstIndex({k \in 1..Len(blocks) :
                         /\ blocks[k].font_size = h["title"]
                         /\ blocks[k].page = 1
                         /\ is_potential_heading(blocks[k].text)})
         IN  IF i = 0 THEN <<>> ELSE blocks[i].text

\* os.path.basename: what follows the last "/"
basename(p) ==
    LET seps == {i \in 1..Len(p) : p[i] = "/"}
    IN  IF seps = {} THEN p
        ELSE SubSeq(p, (CHOOSE i \in seps : \A j \in seps : j <= i) + 1, Len(p))

\* os.path.splitext(p)[0] for a p without "/": cut at the last ".", unless only
\* dots precede it
splitext0(p) ==
    LET dots == {i \in 1..Len(p) : p[i] = "."}
        d == IF dots = {} THEN 0 ELSE CHOOSE i \in dots : \A j \in dots : j <= i
    IN  IF d > 0 /\ \E i \in 1..(d - 1) : p[i] # "."
          THEN SubSeq(p, 1, d - 1)
          ELSE p

\* mutant: the extension is kept
default_title_KeepExt(p) == basename(p)

\* os.path.splitext(os.path.basename(pdf_path))[0]
default_title(p) == splitext0(basename(p))

\* Step 3 of extract_pdf_outline, with the fallback of lines 88-89
simple_title(blocks, h, p) ==
    LET i == IF "title" \in DOMAIN h /\ h["title"] # 0
               THEN FirstIndex({k \in 1..Len(blocks) :
                            /\ blocks[k].font_size = h["title"]
                            /\ blocks[k].page = 1
                            /\ is_valid_heading(blocks[k].text)})
               ELSE 0
        t == IF i = 0 THEN <<>> ELSE blocks[i].text
    IN  IF t = <<>> THEN default_title(p) ELSE t

\* mutant: the sizes are compared with a tolerance of one unit
LevelOf_Tolerance(size, h) ==
    LET near(a, b) == a - b \in {-1, 0, 1}
    IN  IF "H1" \in DOMAIN h /\ near(size, h["H1"]) THEN "H1"
        ELSE IF "H2" \in DOMAIN h /\ near(size, h["H2"]) THEN "H2"
        ELSE IF "H3" \in DOMAIN h /\ near(size, h["H3"]) THEN "H3"
        ELSE ""

\* the if/elif chain `font_size == font_hierarchy.get("H1")` ...; "" for None
LevelOf(size, h) ==
    IF "H1" \in DOMAIN h /\ size = h["H1"] THEN "H1"
    ELSE IF "H2" \in DOMAIN h /\ size = h["H2"] THEN "H2"
    ELSE IF "H3" \in DOMAIN h /\ size = h["H3"] THEN "H3"
    ELSE ""

Heading(b, h) == [level |-> LevelOf(b.font_size, h), text |-> b.text, page |-> b.page]

\* PDFOutlineExtractor.extract_headings
extract_headings(blocks, h) ==
    LET kept == SelectSeq(blocks,
                    LAMBDA b : /\ is_potential_heading(b.text)
                               /\ LevelOf(b.font_size, h) # "")
    IN  [i \in 1..Len(kept) |-> Heading(kept[i], h)]

\* Step 4 of extract_pdf_outline
simple_headings(blocks, h) ==
    LET kept == SelectSeq(blocks,
                    LAMBDA b : /\ is_valid_heading(b.text)
                               /\ LevelOf(b.font_size, h) # "")
    IN  [i \in 1..Len(kept) |-> Heading(kept[i], h)]

\* key = (heading["level"], heading["text"], heading["page"])
Key(hd) == <<hd.level, hd.text, hd.page>>

RECURSIVE DedupLoop_NoAdd(_, _, _)
\* mutant: seen.add(key) is missing
DedupLoop_NoAdd(hs, seen, out) ==
    IF hs = <<>> THEN out
    ELSE IF Key(Head(hs)) \notin seen
      THEN DedupLoop_NoAdd(Tail(hs), seen, Append(out, Head(hs)))
      ELSE DedupLoop_NoAdd(Tail(hs), seen, out)

RECURSIVE DedupLoop_KeyNoPage(_, _, _)
\* mutant: the key is (level, text), without the page
DedupLoop_KeyNoPage(hs, seen, out) ==
    IF hs = <<>> THEN out
    ELSE IF <<Head(hs).level, Head(hs).text>> \notin seen
      THEN DedupLoop_KeyNoPage(Tail(hs), seen \cup {<<Head(hs).level, Head(hs).text>>},
                               Append(out, Head(hs)))
      ELSE DedupLoop_KeyNoPage(Tail(hs), seen, out)

RECURSIVE DedupLoop(_, _, _)
\* `for heading in headings: if key not in seen: seen.add(key); append`
DedupLoop(hs, seen, out) ==
    IF hs = <<>> THEN out
    ELSE IF Key(Head(hs)) \notin seen
      THEN DedupLoop(Tail(hs), seen \cup {Key(Head(hs))}, Append(out, Head(hs)))
      ELSE DedupLoop(Tail(hs), seen, out)

\* the "remove duplicates" loop of both pipelines
unique_headings(hs) == DedupLoop(hs, {}, <<>>)

EmptyResult == [title |-> <<>>, outline |-> <<>>]

\* the result dict of extract_outline
app_result(t, hs, p) ==
    [title |-> IF t # <<>> THEN t ELSE default_title(p),
     outline |-> unique_headings(hs)]

\* mutant: the function-based pipeline returns the headings without
\* deduplicating them
simple_result_NoDedup(t, hs) == [title |-> t, outline |-> hs]

\* the dict returned by extract_pdf_outline
simple_result(t, hs) ==
    [title |-> t, outline |-> unique_headings(hs)]

----------------------------------------------------------------------------
(* The pipeline as a state machine: one call of extract_outline (impl =    *)
(* "app") or of extract_pdf_outline (impl = "simple").                     *)

Impls == {"app", "simple"}

\* the pipeline returns the empty result from its except clause or its
\* `if not text_blocks` test
ReturnEmpty ==
    /\ result' = EmptyResult
    /\ raised' = FALSE
    /\ pc' = "done"

\* fitz.open(pdf_path) returns a document
OpenOk ==
    /\ pc = "start"
    /\ handle' = "open"
    /\ page_num' = 0
    /\ text_blocks' = <<>>
    /\ pc' = "scan"
    /\ UNCHANGED <<impl, pdf_path, doc, font_hierarchy, title, headings, result, raised>>
    /\ UNCHANGED <<batchVars, rerun, gateVars>>

\* fitz.open(pdf_path) raises: extract_text_blocks returns [] and extract_outline
\* returns the empty result; extract_pdf_outline returns it from its except clause
OpenFails ==
    /\ pc = "start"
    /\ ReturnEmpty
    /\ UNCHANGED <<impl, pdf_path, doc, handle, page_num, text_blocks,
                   font_hierarchy, title, headings>>
    /\ UNCHANGED <<batchVars, rerun, gateVars>>

\* one iteration of the page loop
ScanPage ==
    /\ pc = "scan"
    /\ page_num < Len(doc)
    /\ text_blocks' = text_blocks \o
          (IF impl = "app" THEN app_scan_page(doc, page_num)
                           ELSE simple_scan_page(doc, page_num))
    /\ page_num' = page_num + 1
    /\ UNCHANGED <<impl, pdf_path, doc, pc, handle, font_hierarchy, title,
                   headings, result, raised>>
    /\ UNCHANGED <<batchVars, rerun, gateVars>>

\* reading a page or a span raises inside the loop: the except clause is
\* entered without reaching doc.close(); extract_text_blocks returns [] (the
\* fragments collected so far are dropped) and the empty result is returned
ScanRaises ==
    /\ pc = "scan"
    /\ page_num < Len(doc)
    /\ text_blocks' = <<>>
    /\ ReturnEmpty
    /\ UNCHANGED <<impl, pdf_path, doc, handle, page_num,
                   font_hierarchy, title, headings>>
    /\ UNCHANGED <<batchVars, rerun, gateVars>>

\* mutant: the `if not text_blocks` test is missing
CloseDoc_NoEmptyTest ==
    /\ pc = "scan"
    /\ page_num = Len(doc)
    /\ handle' = "closed"
    /\ pc' = "hierarchy"
    /\ UNCHANGED <<impl, pdf_path, doc, page_num, text_blocks, font_hierarchy,
                   title, headings, result, raised>>
    /\ UNCHANGED <<batchVars, rerun, gateVars>>

\* the loop is over: doc.close(), then `if not text_blocks: return {...}`
CloseDoc ==
    /\ pc = "scan"
    /\ page_num = Len(doc)
    /\ handle' = "closed"
    /\ IF text_blocks = <<>>
         THEN ReturnEmpty
         ELSE pc' = "hierarchy" /\ UNCHANGED <<result, raised>>
    /\ UNCHANGED <<impl, pdf_path, doc, page_num, text_blocks, font_hierarchy,
                   title, headings>>
    /\ UNCHANGED <<batchVars, rerun, gateVars>>

AnalyzeHierarchy ==
    /\ pc = "hierarchy"
    /\ font_hierarchy' = IF impl = "app" THEN analyze_font_hierarchy(text_blocks)
                                         ELSE simple_font_hierarchy(text_blocks)
    /\ pc' = "title"
    /\ UNCHANGED <<impl, pdf_path, doc, handle, page_num, text_blocks, title,
                   headings, result, raised>>
    /\ UNCHANGED <<batchVars, rerun, gateVars>>

ExtractTitle ==
    /\ pc = "title"
    /\ title' = IF impl = "app" THEN extract_title(text_blocks, font_hierarchy)
                                ELSE simple_title(text_blocks, font_hierarchy, pdf_path)
    /\ pc' = "headings"
    /\ UNCHANGED <<impl, pdf_path, doc, handle, page_num, text_blocks,
                   font_hierarchy, headings, result, raised>>
    /\ UNCHANGED <<batchVars, rerun, gateVars>>

ExtractHeadings ==
    /\ pc = "headings"
    /\ headings' = IF impl = "app" THEN extract_headings(text_blocks, font_hierarchy)
                                   ELSE simple_headings(text_blocks, font_hierarchy)
    /\ pc' = "assemble"
    /\ UNCHANGED <<impl, pdf_path, doc, handle, page_num, text_blocks,
                   font_hierarchy, title, result, raised>>
    /\ UNCHANGED <<batchVars, rerun, gateVars>>

\* deduplicate, build the result and return it
Assemble ==
    /\ pc = "assemble"
    /\ result' = IF impl = "app" THEN app_result(title, headings, pdf_path)
                                 ELSE simple_result(title, headings)
    /\ raised' = FALSE
    /\ pc' = "done"
    /\ UNCHANGED <<impl, pdf_path, doc, handle, page_num, text_blocks,
                   font_hierarchy, title, headings>>
    /\ UNCHANGED <<batchVars, rerun, gateVars>>

Next ==
    \/ OpenOk
    \/ OpenFails
    \/ ScanPage
    \/ ScanRaises
    \/ CloseDoc
    \/ AnalyzeHierarchy
    \/ ExtractTitle
    \/ ExtractHeadings
    \/ Assemble

----------------------------------------------------------------------------
(* Input documents.                                                        *)

\* a text block holding one line with one span
TextBlock(t, size) == [type |-> 0, spans |-> <<[text |-> t, size |-> size]>>]

\* an image block: it has no lines
ImageBlock == [type |-> 1, spans |-> <<>>]

\* the sequences over S of length at most n
SeqsUpTo(S, n) == UNION {[1..k -> S] : k \in 0..n}

\* the documents of np pages whose pages, in order, hold the blocks of bs
Paginations(bs, np) ==
    LET cuts == {f \in [1..Len(bs) -> 1..np] :
                    \A i, j \in 1..Len(bs) : i <= j => f[i] <= f[j]}
    IN  {[p \in 1..np |->
            SubSeq(bs, Cardinality({i \in 1..Len(bs) : cuts_f[i] < p}) + 1,
                       Cardinality({i \in 1..Len(bs) : cuts_f[i] <= p}))] :
         cuts_f \in cuts}

\* every document of np pages with at most n blocks drawn from pool
Docs(pool, n, np) == UNION {Paginations(bs, np) : bs \in SeqsUpTo(pool, n)}

InitPipe(docs, paths) ==
    /\ impl \in Impls
    /\ pdf_path \in paths
    /\ doc \in docs
    /\ pc = "start"
    /\ handle = "none"
    /\ page_num = 0
    /\ text_blocks = <<>>
    /\ font_hierarchy = <<>>
    /\ title = <<>>
    /\ headings = <<>>
    /\ result = EmptyResult
    /\ raised = FALSE
    /\ rerun = <<>>
    /\ gate_text = <<>>
    /\ accepted = FALSE
    /\ listing = <<>>
    /\ pdf_files = <<>>
    /\ idx = 0
    /\ attempts = <<>>
    /\ returned = <<>>
    /\ written = {}
    /\ success_count = 0
    /\ reported = -1

\* texts of spans, as the parser yields them (before strip)
DocTitleText == <<"D","o","c"," ","T","i","t","l","e">>
IntroductionText == <<"I","n","t","r","o","d","u","c","t","i","o","n">>
BackgroundText == <<"B","a","c","k","g","r","o","u","n","d",".">>
Page3Text == <<"P","a","g","e"," ","3">>
ScopeText == <<" ","S","c","o","p","e",".">>
ToDoText == <<"t","o"," ","d","o">>
ShortText == <<" ","a","\n">>

\* paths of input files
PathA == <<"i","n","/","r",".","v","2",".","p","d","f">>
PathB == <<"a",".","p","d","f">>

\* the synthetic document of the specification's section 8
SyntheticDoc ==
    << <<TextBlock(DocTitleText, 24), TextBlock(IntroductionText, 18)>>,
       <<TextBlock(BackgroundText, 14)>>,
       <<TextBlock(Page3Text, 10)>> >>

MaxBlocks == 3
MaxPages == 2

\* documents for the whole-pipeline properties
GeneralPool ==
    {TextBlock(t, z) : t \in {DocTitleText, Page3Text}, z \in {24, 18}}
        \cup {TextBlock(ShortText, 18), ImageBlock}

Init == InitPipe(Docs(GeneralPool, MaxBlocks, MaxPages) \cup {SyntheticDoc}, {PathA})

Spec == Init /\ [][Next]_vars

----------------------------------------------------------------------------
(* Properties of the whole pipeline, checked under Spec.                   *)

SyntheticFragments ==
    << [text |-> DocTitleText, font_size |-> 24, page |-> 1],
       [text |-> IntroductionText, font_size |-> 18, page |-> 1],
       [text |-> BackgroundText, font_size |-> 14, page |-> 2],
       [text |-> Page3Text, font_size |-> 10, page |-> 3] >>

SyntheticExpected ==
    [title |-> DocTitleText,
     outline |-> << [level |-> "H1", text |-> IntroductionText, page |-> 1],
                    [level |-> "H2", text |-> BackgroundText, page |-> 2] >>]

\* C1: for the synthetic fragment stream (24 "Doc Title" p1, 18 "Introduction"
\* p1, 14 "Background." p2, 10 "Page 3" p3) both pipelines return the title
\* "Doc Title" and exactly the outline [H1 Introduction 1, H2 Background. 2].
C1_SyntheticExample ==
    (pc = "done" /\ text_blocks = SyntheticFragments) => result = SyntheticExpected

C1_Witness ==
    /\ pc = "done"
    /\ doc = SyntheticDoc
    /\ text_blocks = SyntheticFragments
    /\ Len(result.outline) = 2

\* C2: a document that yields zero fragments (open failure, exception during
\* extraction, or no span surviving the length filter) gives exactly the empty
\* result, and no exception reaches the caller.
C2_ZeroFragmentsEmptyResult ==
    (pc = "done" /\ text_blocks = <<>>) => (result = EmptyResult /\ ~raised)

\* the document was opened and read to its end, had spans, and none survived
C2_Witness ==
    /\ pc = "done"
    /\ handle = "closed"
    /\ text_blocks = <<>>
    /\ \E p \in 1..Len(doc) : \E b \in 1..Len(doc[p]) : doc[p][b].type = 0
    /\ result = EmptyResult

\* C6: when all fragments share one font size, the hierarchy holds only the
\* title tier and the outline is empty.
C6_SingleSizeNoHeadings ==
    (pc = "done" /\ text_blocks # <<>> /\ Cardinality(FontSizes(text_blocks)) = 1)
        => (DOMAIN font_hierarchy = {"title"} /\ result.outline = <<>>)

\* two fragments of one size, on different pages, one of them a heading-like text
C6_Witness ==
    /\ pc = "done"
    /\ Len(text_blocks) >= 2
    /\ Cardinality(FontSizes(text_blocks)) = 1
    /\ \E i, j \in 1..Len(text_blocks) :
          /\ text_blocks[i].page # text_blocks[j].page
          /\ is_potential_heading(text_blocks[i].text)
    /\ result.outline = <<>>

Chars == WordChar \cup Space \cup {".", ":", "?", "!", "-", "(", ")", "/", "@"}

\* validate_json_output of test_extractor.py, on a returned value
validate_json_output(r) ==
    /\ {"title", "outline"} \subseteq DOMAIN r
    /\ r.title \in Seq(Chars)
    /\ DOMAIN r.outline = 1..Len(r.outline)
    /\ \A i \in 1..Len(r.outline) :
          LET item == r.outline[i]
          IN  /\ {"level", "text", "page"} \subseteq DOMAIN item
              /\ item.level \in {"H1", "H2", "H3"}
              /\ item.text \in Seq(Chars) /\ Len(item.text) # 0
              /\ item.page \in Int /\ item.page >= 1

\* C7: every value returned by extract_pdf_outline, also for a failing
\* document, passes validate_json_output.
C7_OutputValidates ==
    (pc = "done" /\ impl = "simple") => validate_json_output(result)

C7_Witness ==
    /\ pc = "done"
    /\ impl = "simple"
    /\ Len(result.outline) >= 2
    /\ validate_json_output(result)

----------------------------------------------------------------------------
(* The title, checked under TitleSpec: page-1 and page-2 fragments at the  *)
(* title size and below, with texts that pass both gates, only the gate of *)
(* simple_extractor.py, or neither.                                        *)

TitlePool ==
    {TextBlock(t, 24) : t \in {DocTitleText, ScopeText, ToDoText, Page3Text}}
        \cup {TextBlock(DocTitleText, 18)}

TitleInit == InitPipe(Docs(TitlePool, MaxBlocks, MaxPages), {PathA, PathB})

TitleSpec == TitleInit /\ [][Next]_vars

\* fragment i is on page 1, has the title-tier size and passes the gate of
\* pipeline g
Qualifies(i, g) ==
    /\ text_blocks[i].page = 1
    /\ text_blocks[i].font_size = font_hierarchy["title"]
    /\ Gate(g, text_blocks[i].text)

\* the title is the text of the first fragment that qualifies under the gate of g
TitleIsFirst(g) ==
    \A i \in 1..Len(text_blocks) :
        (Qualifies(i, g) /\ \A j \in 1..(i - 1) : ~Qualifies(j, g))
            => result.title = text_blocks[i].text

\* the base name of each input path with its extension stripped
ExpectedBaseName(p) ==
    IF p = PathA THEN <<"r", ".", "v", "2">> ELSE <<"a">>

Finished == pc = "done" /\ text_blocks # <<>>

\* C3 as stated: in both pipelines the title is the first page-1 fragment at
\* the title-tier size that passes the structural gate is_potential_heading.
C3_TitleFirstStructural ==
    Finished => TitleIsFirst("app")

\* C3: the title is the first page-1 fragment at the title-tier size that
\* passes the gate its pipeline applies: is_potential_heading in app.py,
\* is_valid_heading (no ending or case rule) in simple_extractor.py.
C3_TitleFirstOwnGate ==
    Finished => TitleIsFirst(impl)

\* the first qualifying fragment is not the first fragment, and another text
\* qualifies after it
C3_Witness ==
    /\ Finished
    /\ \E i, j \in 1..Len(text_blocks) :
          /\ 1 < i /\ i < j
          /\ \A k \in 1..(i - 1) : ~Qualifies(k, impl)
          /\ Qualifies(i, impl)
          /\ Qualifies(j, impl)
          /\ text_blocks[i].text # text_blocks[j].text
          /\ result.title = text_blocks[i].text

\* C4 as stated: whenever no page-1 fragment at the title-tier size passes the
\* structural gate, the title is the file's base name without its extension.
C4_FallbackAlways ==
    (pc = "done" /\ \A i \in 1..Len(text_blocks) : ~Qualifies(i, "app"))
        => result.title = ExpectedBaseName(pdf_path)

\* C4: for a document with at least one fragment in which no page-1 fragment at
\* the title-tier size passes the gate its pipeline applies, the title is the
\* file's base name without its extension.
C4_FallbackWhenFragments ==
    (Finished /\ \A i \in 1..Len(text_blocks) : ~Qualifies(i, impl))
        => result.title = ExpectedBaseName(pdf_path)

\* a fragment at the title size passes the gate, but on page 2
C4_Witness ==
    /\ Finished
    /\ \A i \in 1..Len(text_blocks) : ~Qualifies(i, impl)
    /\ \E i \in 1..Len(text_blocks) :
          /\ text_blocks[i].page = 2
          /\ text_blocks[i].font_size = font_hierarchy["title"]
          /\ Gate(impl, text_blocks[i].text)
    /\ pdf_path = PathA
    /\ result.title = <<"r", ".", "v", "2">>

----------------------------------------------------------------------------
(* The font hierarchy, checked under HierarchySpec: one page of fragments  *)
(* of one text, over five font sizes.                                      *)

MaxSizedBlocks == 5

HierarchyPool == {TextBlock(ScopeText, z) : z \in {10, 12, 14, 18, 24}}

HierarchyInit == InitPipe(Docs(HierarchyPool, MaxSizedBlocks, 1), {PathB})

HierarchySpec == HierarchyInit /\ [][Next]_vars

\* the hierarchy of the current document has been computed
HierarchyKnown ==
    \/ pc \in {"title", "headings", "assemble"}
    \/ pc = "done" /\ text_blocks # <<>>

\* the n largest members of S
Largest(S, n) == {x \in S : Cardinality({y \in S : y > x}) < n}

\* C5: with d distinct font sizes, exactly the first min(d, 4) tiers of
\* (title, H1, H2, H3) are populated, they hold the min(d, 4) largest distinct
\* sizes, and the populated tiers are strictly descending in that order.
C5_HierarchyTopFourDescending ==
    HierarchyKnown =>
        LET S == FontSizes(text_blocks)
            n == IF Cardinality(S) >= 4 THEN 4 ELSE Cardinality(S)
        IN  /\ DOMAIN font_hierarchy = {Tiers[i] : i \in 1..n}
            /\ {font_hierarchy[Tiers[i]] : i \in 1..n} = Largest(S, n)
            /\ \A i, j \in 1..n :
                  i < j => font_hierarchy[Tiers[i]] > font_hierarchy[Tiers[j]]

\* five distinct sizes, the smallest of them first in the stream
C5_Witness ==
    /\ pc = "done"
    /\ Cardinality(FontSizes(text_blocks)) = 5
    /\ text_blocks[1].font_size = 10
    /\ font_hierarchy = [title |-> 24, H1 |-> 18, H2 |-> 14, H3 |-> 12]

----------------------------------------------------------------------------
(* The order of the outline, checked under OrderSpec: two texts over three *)
(* sizes, up to four fragments.                                            *)

MaxOrderBlocks == 4

OrderPool ==
    {TextBlock(ScopeText, 24), TextBlock(DocTitleText, 18), TextBlock(ScopeText, 14)}

OrderInit == InitPipe(Docs(OrderPool, MaxOrderBlocks, MaxPages), {PathB})

OrderSpec == OrderInit /\ [][Next]_vars

\* the level of a size by its rank among the distinct sizes, "" for none
RankLevel(size) ==
    LET above == Cardinality({y \in FontSizes(text_blocks) : y > size})
    IN  IF above = 1 THEN "H1" ELSE IF above = 2 THEN "H2"
        ELSE IF above = 3 THEN "H3" ELSE ""

\* fragment i is classified as a heading by its pipeline
Classified(i) ==
    /\ Gate(impl, text_blocks[i].text)
    /\ RankLevel(text_blocks[i].font_size) # ""

FragmentKey(i) ==
    <<RankLevel(text_blocks[i].font_size), text_blocks[i].text, text_blocks[i].page>>

\* the classified fragments that are the first with their (level, text, page)
FirstOccurrences ==
    {i \in 1..Len(text_blocks) :
        /\ Classified(i)
        /\ \A j \in 1..(i - 1) : ~(Classified(j) /\ FragmentKey(j) = FragmentKey(i))}

\* C9: the outline lists, in stream order, exactly the first occurrence of each
\* (level, text, page) among the classified fragments: later duplicates are
\* dropped and nothing is re-sorted by page or level.
C9_OutlineFirstOccurrenceOrder ==
    Finished =>
        /\ Len(result.outline) = Cardinality(FirstOccurrences)
        /\ \A k \in 1..Len(result.outline) :
              \E i \in FirstOccurrences :
                  /\ Cardinality({j \in FirstOccurrences : j < i}) = k - 1
                  /\ Key(result.outline[k]) = FragmentKey(i)

\* a duplicate was dropped, the same heading was kept for another page, and an
\* H2 entry precedes an H1 entry
C9_Witness ==
    /\ Finished
    /\ Cardinality({i \in 1..Len(text_blocks) : Classified(i)}) > Len(result.outline)
    /\ Len(result.outline) >= 2
    /\ result.outline[1].level = "H2"
    /\ result.outline[2].level = "H1"

----------------------------------------------------------------------------
(* Deduplication as a function of any heading list, checked under          *)
(* DedupSpec: the loop is run on a list, then on its own output.           *)

MaxHeadings == 3

HeadingPool ==
    [level : {"H1", "H2"}, text : {ScopeText, DocTitleText}, page : {1, 2}]

DedupInit ==
    /\ impl = "app"
    /\ pdf_path = PathB
    /\ doc = <<>>
    /\ pc = "dedup"
    /\ handle = "none"
    /\ page_num = 0
    /\ text_blocks = <<>>
    /\ font_hierarchy = <<>>
    /\ title = <<>>
    /\ headings \in SeqsUpTo(HeadingPool, MaxHeadings)
    /\ result = EmptyResult
    /\ raised = FALSE
    /\ rerun = <<>>
    /\ gate_text = <<>>
    /\ accepted = FALSE
    /\ listing = <<>>
    /\ pdf_files = <<>>
    /\ idx = 0
    /\ attempts = <<>>
    /\ returned = <<>>
    /\ written = {}
    /\ success_count = 0
    /\ reported = -1

\* the deduplication loop, run on the heading list
DedupOnce ==
    /\ pc = "dedup"
    /\ result' = [result EXCEPT !.outline = unique_headings(headings)]
    /\ pc' = "deduped"
    /\ UNCHANGED <<impl, pdf_path, doc, handle, page_num, text_blocks,
                   font_hierarchy, title, headings, raised>>
    /\ UNCHANGED <<batchVars, rerun, gateVars>>

\* the loop, run again on its own output
DedupAgain ==
    /\ pc = "deduped"
    /\ rerun' = unique_headings(result.outline)
    /\ pc' = "rededuped"
    /\ UNCHANGED <<impl, pdf_path, doc, handle, page_num, text_blocks,
                   font_hierarchy, title, headings, result, raised>>
    /\ UNCHANGED <<batchVars, gateVars>>

DedupNext == DedupOnce \/ DedupAgain

DedupSpec == DedupInit /\ [][DedupNext]_vars

\* no two entries of hs share (level, text, page)
NoDuplicateKeys(hs) ==
    \A i, j \in 1..Len(hs) : Key(hs[i]) = Key(hs[j]) => i = j

\* C8: deduplication is idempotent: run on its own output it returns that
\* output unchanged, and its output never holds two entries with the same
\* (level, text, page).
C8_DedupIdempotent ==
    /\ pc \in {"deduped", "rededuped"} => NoDuplicateKeys(result.outline)
    /\ pc = "rededuped" => rerun = result.outline

\* the first run dropped a duplicate and kept two entries; the second run
\* changed nothing
C8_Witness ==
    /\ pc = "rededuped"
    /\ Len(headings) = 3
    /\ Len(result.outline) = 2
    /\ rerun = result.outline

----------------------------------------------------------------------------
(* The batch drivers: process_directory with process_pdf_file (impl =      *)
(* "app") and process_data_folder with process_single_pdf (impl =          *)
(* "simple").  The extraction of one file never raises (Spec); its write   *)
(* may.                                                                    *)

MaxFiles == 3

NameB == <<"B",".","P","D","F">>
NameC == <<"c",".","p","d","f">>
NameN == <<"n",".","t","x","t">>

NamePool == {PathB, NameB, NameC, NameN}

\* f.lower().endswith('.pdf')
IsPdf(f) ==
    /\ Len(f) >= 4
    /\ lower(SubSeq(f, Len(f) - 3, Len(f))) = <<".","p","d","f">>

\* a directory listing: distinct names
Listings ==
    {l \in SeqsUpTo(NamePool, MaxFiles) : \A i, j \in 1..Len(l) : l[i] = l[j] => i = j}

BatchInit ==
    /\ impl \in Impls
    /\ pdf_path = <<>>
    /\ doc = <<>>
    /\ pc = "batch_start"
    /\ handle = "none"
    /\ page_num = 0
    /\ text_blocks = <<>>
    /\ font_hierarchy = <<>>
    /\ title = <<>>
    /\ headings = <<>>
    /\ result = EmptyResult
    /\ raised = FALSE
    /\ rerun = <<>>
    /\ gate_text = <<>>
    /\ accepted = FALSE
    /\ listing \in Listings
    /\ pdf_files = <<>>
    /\ idx = 0
    /\ attempts = <<>>
    /\ returned = <<>>
    /\ written = {}
    /\ success_count = 0
    /\ reported = -1

outlineVars == <<doc, handle, page_num, text_blocks, font_hierarchy, title,
                 headings, result, raised, rerun, gate_text, accepted>>

\* the files are listed and filtered; with none, a warning is logged and the
\* driver returns
Discover ==
    /\ pc = "batch_start"
    /\ pdf_files' = SelectSeq(listing, IsPdf)
    /\ pc' = IF SelectSeq(listing, IsPdf) = <<>> THEN "batch_done" ELSE "batch_loop"
    /\ success_count' = 0
    /\ UNCHANGED <<impl, pdf_path, listing, idx, attempts, returned, written, reported>>
    /\ UNCHANGED outlineVars

\* one file: its outline (a real one or the empty result of a failed
\* extraction) is written; process_pdf_file returns True
FileWritten ==
    /\ pc = "batch_loop"
    /\ idx < Len(pdf_files)
    /\ \E kind \in {"outline", "empty"} :
          written' = written \cup {<<pdf_files[idx + 1], kind>>}
    /\ pdf_path' = pdf_files[idx + 1]
    /\ attempts' = Append(attempts, pdf_files[idx + 1])
    /\ returned' = Append(returned, TRUE)
    /\ success_count' = IF impl = "app" THEN success_count + 1 ELSE success_count
    /\ idx' = idx + 1
    /\ UNCHANGED <<impl, pc, listing, pdf_files, reported>>
    /\ UNCHANGED outlineVars

\* mutant: the exception of the write leaves the loop
FileWriteFails_Aborts ==
    /\ pc = "batch_loop"
    /\ idx < Len(pdf_files)
    /\ pdf_path' = pdf_files[idx + 1]
    /\ attempts' = Append(attempts, pdf_files[idx + 1])
    /\ returned' = Append(returned, FALSE)
    /\ idx' = idx + 1
    /\ pc' = "batch_done"
    /\ UNCHANGED <<impl, listing, pdf_files, written, success_count, reported>>
    /\ UNCHANGED outlineVars

\* one file: writing its output raises; process_pdf_file returns False from its
\* except clause (process_data_folder catches the exception of
\* process_single_pdf), and the loop goes on
FileWriteFails ==
    /\ pc = "batch_loop"
    /\ idx < Len(pdf_files)
    /\ pdf_path' = pdf_files[idx + 1]
    /\ attempts' = Append(attempts, pdf_files[idx + 1])
    /\ returned' = Append(returned, FALSE)
    /\ idx' = idx + 1
    /\ UNCHANGED <<impl, pc, listing, pdf_files, written, success_count, reported>>
    /\ UNCHANGED outlineVars

\* the loop is over: process_directory logs success_count/len(pdf_files);
\* process_data_folder logs nothing
Report ==
    /\ pc = "batch_loop"
    /\ idx = Len(pdf_files)
    /\ reported' = IF impl = "app" THEN success_count ELSE reported
    /\ pc' = "batch_done"
    /\ UNCHANGED <<impl, pdf_path, listing, pdf_files, idx, attempts, returned,
                   written, success_count>>
    /\ UNCHANGED outlineVars

BatchNext == Discover \/ FileWritten \/ FileWriteFails \/ Report

BatchSpec == BatchInit /\ [][BatchNext]_vars

\* the names of the pool that are PDF files
PdfNames == {PathB, NameB, NameC}

\* the number of files whose processing returned True
Successes == Cardinality({i \in 1..Len(returned) : returned[i]})

\* every discovered PDF was attempted exactly once, in listing order, whatever
\* happened to the others, and a file's processing returned True exactly when
\* its output was written
AllAttempted ==
    /\ attempts = pdf_files
    /\ {attempts[i] : i \in 1..Len(attempts)} =
          {listing[i] : i \in 1..Len(listing)} \cap PdfNames
    /\ \A i, j \in 1..Len(attempts) : attempts[i] = attempts[j] => i = j
    /\ Len(returned) = Len(attempts)
    /\ \A i \in 1..Len(attempts) :
          returned[i] <=> \E kind \in {"outline", "empty"} : <<attempts[i], kind>> \in written

\* C10 as stated: the batch always ends with every discovered PDF attempted
\* once and a reported success count equal to the number of files whose
\* processing returned True.
C10_AlwaysReportsCount ==
    pc = "batch_done" => (AllAttempted /\ reported = Successes)

\* C10: both drivers attempt every discovered PDF exactly once whatever the
\* outcome of the others, and a write failure is that file's failure only;
\* process_directory reports the number of files whose processing returned
\* True when at least one PDF was discovered and reports no count when none
\* was; process_data_folder reports no count.
C10_AttemptsAllReportsWhenFiles ==
    pc = "batch_done" =>
        /\ AllAttempted
        /\ (impl = "app" /\ pdf_files # <<>>) => reported = Successes
        /\ (impl = "simple" \/ pdf_files = <<>>) => reported = -1

\* three PDFs, the first failing to write, the later ones written
C10_Witness ==
    /\ pc = "batch_done"
    /\ impl = "app"
    /\ Len(pdf_files) = 3
    /\ returned = <<FALSE, TRUE, TRUE>>
    /\ reported = 2

(***************************************************************************)
(* The document handle.  handle is "none" until fitz.open returns, "open"  *)
(* from then on and "closed" once doc.close() has been called.  Both       *)
(* pipelines call doc.close() as the last statement of the try body, after *)
(* the page loop; neither has a finally clause or a with statement.        *)
(***************************************************************************)

\* the page loop raised after a successful open and the extraction returned
ExitedByException == pc = "done" /\ page_num < Len(doc) /\ handle # "none"

\* C11: the handle opened for a document is closed on every exit path of
\* that document's extraction, the path through the except clause after a
\* successful open included: once the extraction has returned, no handle
\* is left open.
C11_HandleClosedOnEveryExit ==
    pc = "done" => handle # "open"

\* what the code does guarantee: the handle is closed on the paths that run
\* the page loop to its end, and is left open exactly on the paths that
\* leave the loop through the except clause
C11_ClosedUnlessLoopRaised ==
    pc = "done" =>
        /\ handle = "open" <=> ExitedByException
        /\ page_num = Len(doc) => handle = "closed"

\* a two-page document whose second page raised: one page was read, the
\* empty result was returned and the handle is still open
C11_Witness ==
    /\ ExitedByException
    /\ Len(doc) = 2
    /\ page_num = 1
    /\ handle = "open"
    /\ result = EmptyResult

(***************************************************************************)
(* The two pipelines side by side.  extract_outline and                    *)
(* extract_pdf_outline are the whole calls, on a document that opens and   *)
(* reads without an exception, composed from the stages above; a run of    *)
(* one pipeline is compared with the other pipeline's call on the same     *)
(* document and path.                                                      *)
(***************************************************************************)

RECURSIVE extract_text_blocks(_, _)
\* the page loop of extract_text_blocks from page index n on
extract_text_blocks(d, n) ==
    IF n >= Len(d) THEN <<>>
    ELSE app_scan_page(d, n) \o extract_text_blocks(d, n + 1)

RECURSIVE simple_text_blocks(_, _)
\* the page loop of extract_pdf_outline from page index n on
simple_text_blocks(d, n) ==
    IF n >= Len(d) THEN <<>>
    ELSE simple_scan_page(d, n) \o simple_text_blocks(d, n + 1)

extract_outline(d, p) ==
    LET blocks == extract_text_blocks(d, 0)
        h      == analyze_font_hierarchy(blocks)
    IN  IF blocks = <<>> THEN EmptyResult
        ELSE app_result(extract_title(blocks, h), extract_headings(blocks, h), p)

extract_pdf_outline(d, p) ==
    LET blocks == simple_text_blocks(d, 0)
        h      == simple_font_hierarchy(blocks)
    IN  IF blocks = <<>> THEN EmptyResult
        ELSE simple_result(simple_title(blocks, h, p), simple_headings(blocks, h))

\* the run read every page and returned
ReadToEnd == pc = "done" /\ handle = "closed"

\* what the pipeline that is not running returns for the same document
OtherResult ==
    IF impl = "app" THEN extract_pdf_outline(doc, pdf_path)
                    ELSE extract_outline(doc, pdf_path)

\* the whole call agrees with the run of its own pipeline, step by step
OwnResultMatchesSteps ==
    ReadToEnd =>
        result = IF impl = "app" THEN extract_outline(doc, pdf_path)
                                 ELSE extract_pdf_outline(doc, pdf_path)

\* the two gates give the same verdict on every fragment of the stream
GatesAgreeOnStream ==
    \A i \in 1..Len(text_blocks) :
        is_potential_heading(text_blocks[i].text) <=> is_valid_heading(text_blocks[i].text)

\* C12 as stated: the two pipelines are equivalent, returning the same title
\* and the same outline for every fragment stream and path, their gates
\* accepting exactly the same texts.
C12_PipelinesEquivalent ==
    ReadToEnd => (result = OtherResult /\ GatesAgreeOnStream)

\* C12: every text is_potential_heading accepts is accepted by
\* is_valid_heading, but not conversely; the two pipelines return the same
\* title and the same outline for every fragment stream on whose texts the
\* two gates give the same verdict, whatever the path.
C12_EquivalentWhereGatesAgree ==
    ReadToEnd =>
        /\ \A i \in 1..Len(text_blocks) :
              is_potential_heading(text_blocks[i].text) => is_valid_heading(text_blocks[i].text)
        /\ GatesAgreeOnStream => result = OtherResult

\* a run over a stream the gates agree on, with a title taken from the
\* stream and a non-empty outline, the other pipeline returning the same
C12_Witness ==
    /\ ReadToEnd
    /\ GatesAgreeOnStream
    /\ result.outline # <<>>
    /\ result.title = strip(ScopeText)
    /\ \E i \in 1..Len(text_blocks) : ~is_valid_heading(text_blocks[i].text)
    /\ result = OtherResult

(***************************************************************************)
(* The structural gate on its own: is_potential_heading applied to one     *)
(* text.  The texts are a prefix, a core and an ending put together, plus  *)
(* the texts at the two length limits and the documented examples.         *)
(***************************************************************************)

GatePrefixes ==
    {<<>>,
     <<"1",".","2">>,
     <<"1","2",".">>,
     <<"P","a","g","e"," ","1">>,
     <<"p","A","G","E"," ","1">>,
     <<"P","a","g","e"," ">>,
     <<"F","i","g","u","r","e"," ","2">>,
     <<"T","a","b","l","e"," ","3">>,
     <<"w","w","w",".">>,
     <<"W","W","W",".">>,
     <<"h","t","t","p",":","/","/">>,
     <<"h","t","t","p","s",":","/","/">>,
     <<"a","@","b">>,
     <<"a","@">>,
     <<"1","2"," ">>}

GateCores ==
    {<<>>,
     <<"I","n","t","r","o">>,
     <<"I","N","T","R","O">>,
     <<"i","n","t","r","o">>,
     <<"C","h","a","p","t","e","r"," ","O","n","e">>,
     <<"i","O","S">>,
     <<"O","n","e"," ","t","w","o">>,
     <<"(","3",")">>,
     <<"e","x","a","m","p","l","e",".","c","o","m">>}

GateEndings ==
    {<<>>,
     <<".">>,
     <<":">>,
     <<"?">>,
     <<"!">>,
     <<";">>}

Page12Text == <<"P","a","g","e"," ","1","2">>
WwwExampleText == <<"w","w","w",".","e","x","a","m","p","l","e",".","c","o","m">>
VersionText == <<"1",".","2",".","3">>
AllCapsText == <<"I","N","T","R","O","D","U","C","T","I","O","N">>
ChapterOneText == <<"C","h","a","p","t","e","r"," ","O","n","e",":"," ","F","o","u","n","d","a","t","i","o","n","s",".">>

\* n times the letter A
Repeated(n) == [i \in 1..n |-> "A"]

GateTexts ==
    {p \o c \o e : p \in GatePrefixes, c \in GateCores, e \in GateEndings}
    \cup {Page12Text, WwwExampleText, VersionText, AllCapsText, ChapterOneText,
          ToDoText, strip(ScopeText), DocTitleText}
    \cup {Repeated(n) : n \in {min_heading_length - 1, min_heading_length,
                               max_heading_length, max_heading_length + 1}}
    \cup {Repeated(max_heading_length - 1) \o e : e \in GateEndings}
    \cup {Repeated(max_heading_length) \o e : e \in GateEndings}

GateInit ==
    /\ impl = "app"
    /\ pdf_path = PathB
    /\ doc = <<>>
    /\ pc = "gate"
    /\ handle = "none"
    /\ page_num = 0
    /\ text_blocks = <<>>
    /\ font_hierarchy = <<>>
    /\ title = <<>>
    /\ headings = <<>>
    /\ result = EmptyResult
    /\ raised = FALSE
    /\ rerun = <<>>
    /\ listing = <<>>
    /\ pdf_files = <<>>
    /\ idx = 0
    /\ attempts = <<>>
    /\ returned = <<>>
    /\ written = {}
    /\ success_count = 0
    /\ reported = -1
    /\ gate_text \in GateTexts
    /\ accepted = FALSE

\* one call of is_potential_heading
ApplyGate ==
    /\ pc = "gate"
    /\ accepted' = is_potential_heading(gate_text)
    /\ pc' = "gated"
    /\ UNCHANGED <<impl, pdf_path, doc, handle, page_num, text_blocks,
                   font_hierarchy, title, headings, result, raised, rerun,
                   gate_text>>
    /\ UNCHANGED batchVars

GateNext == ApplyGate

GateSpec == GateInit /\ [][GateNext]_vars

\* the two characters are the same up to letter case
SameIgnoringCase(a, b) ==
    \/ a = b
    \/ \E k \in 1..26 : {a, b} = {UpperSeq[k], LowerSeq[k]}

\* t begins with the characters of w, compared ignoring case
BeginsWith(t, w) ==
    /\ Len(t) >= Len(w)
    /\ \A i \in 1..Len(w) : SameIgnoringCase(t[i], w[i])

\* t begins with the word w, a space and a digit
BeginsWithWordAndNumber(t, w) ==
    /\ BeginsWith(t, w \o <<" ">>)
    /\ Len(t) >= Len(w) + 2
    /\ t[Len(w) + 2] \in Digit

\* t begins with one or more characters of cls, then the character sep, then
\* a character of cls
BeginsWithPair(t, cls, sep) ==
    \E n \in 1..Len(t) :
        /\ n + 2 <= Len(t)
        /\ \A i \in 1..n : t[i] \in cls
        /\ t[n + 1] = sep
        /\ t[n + 2] \in cls

\* the prefixes the gate refuses
HasRefusedPrefix(t) ==
    \/ BeginsWithPair(t, Digit, ".")
    \/ BeginsWithWordAndNumber(t, <<"P","a","g","e">>)
    \/ BeginsWithWordAndNumber(t, <<"F","i","g","u","r","e">>)
    \/ BeginsWithWordAndNumber(t, <<"T","a","b","l","e">>)
    \/ BeginsWith(t, <<"w","w","w",".">>)
    \/ BeginsWith(t, <<"h","t","t","p",":","/","/">>)
    \/ BeginsWith(t, <<"h","t","t","p","s",":","/","/">>)
    \/ BeginsWithPair(t, WordChar, "@")

\* t is made only of digits, whitespace and . - ( )
OnlyNumberCharacters(t) ==
    {t[i] : i \in 1..Len(t)} \subseteq (Digit \cup Space \cup {".", "-", "(", ")"})

Letters == Upper \cup Lower

\* t has a letter and none of its letters is lower-case
FullyUpperCase(t) ==
    LET used == {t[i] : i \in 1..Len(t)} \cap Letters
    IN  used # {} /\ used \subseteq Upper

\* t has a letter, and a letter of t is a capital exactly when it begins a
\* run of letters
TitleCase(t) ==
    LET at == {i \in 1..Len(t) : t[i] \in Letters}
    IN  /\ at # {}
        /\ \A i \in at : (t[i] \in Upper) <=> (i - 1 \notin at)

\* the last character of t is one of . : ? !
EndsInHeadingPunctuation(t) ==
    t # <<>> /\ t[Len(t)] \in {".", ":", "?", "!"}

\* the texts the gate is said to accept
ShouldAccept(t) ==
    /\ Len(t) >= 3
    /\ Len(t) <= 200
    /\ ~OnlyNumberCharacters(t)
    /\ ~HasRefusedPrefix(t)
    /\ EndsInHeadingPunctuation(t) \/ FullyUpperCase(t) \/ TitleCase(t)

\* C13: is_potential_heading accepts a text if and only if its length is
\* within [3, 200], it is not made only of digits, whitespace and . - ( ),
\* it does not begin (ignoring case) with digits.digits, "Page <digits>",
\* "Figure <digits>", "Table <digits>", "www.", "http://", "https://" or
\* word@word, and it ends in one of . : ? ! or is fully upper-case or
\* title-case; it rejects "Page 12", "www.example.com" and "1.2.3", accepts
\* "INTRODUCTION" and "Chapter One: Foundations.", and rejects a text
\* without ending punctuation that is neither upper-case nor title-case.
C13_StructuralGate ==
    pc = "gated" =>
        /\ accepted <=> ShouldAccept(gate_text)
        /\ gate_text \in {Page12Text, WwwExampleText, VersionText} => ~accepted
        /\ gate_text \in {AllCapsText, ChapterOneText} => accepted
        /\ (/\ ~EndsInHeadingPunctuation(gate_text)
            /\ ~FullyUpperCase(gate_text)
            /\ ~TitleCase(gate_text)) => ~accepted

\* a title-case text without ending punctuation was accepted
C13_Witness ==
    /\ pc = "gated"
    /\ gate_text = <<"C","h","a","p","t","e","r"," ","O","n","e">>
    /\ accepted

(***************************************************************************)
(* Heading classification by tier, checked under TierSpec: one-page        *)
(* documents over five sizes, two of them one unit apart, with a text      *)
(* only is_valid_heading accepts at the second-largest size.               *)
(***************************************************************************)

TierPool ==
    {TextBlock(ScopeText, z) : z \in {24, 14, 11, 10}} \cup {TextBlock(ToDoText, 18)}

TierInit == InitPipe(Docs(TierPool, MaxSizedBlocks, 1), {PathB})

TierSpec == TierInit /\ [][Next]_vars

\* the fragments that pass gate g and whose size has rank 2, 3 or 4 among
\* the distinct sizes of the stream
TierFragments(g) ==
    {i \in 1..Len(text_blocks) :
        /\ Gate(g, text_blocks[i].text)
        /\ RankLevel(text_blocks[i].font_size) # ""}

\* the headings are, in stream order, one per fragment of TierFragments(g),
\* each at the tier whose size is exactly the fragment's; every outline
\* entry is one of these headings, level unchanged
TierGate(g) ==
    LET tf == TierFragments(g)
    IN  /\ Len(headings) = Cardinality(tf)
        /\ \A k \in 1..Len(headings) :
              \E i \in tf :
                  /\ Cardinality({j \in tf : j < i}) = k - 1
                  /\ Key(headings[k]) = FragmentKey(i)
                  /\ font_hierarchy[headings[k].level] = text_blocks[i].font_size
        /\ \A k \in 1..Len(result.outline) :
              \E j \in 1..Len(headings) : result.outline[k] = headings[j]

\* C14 as stated: every outline entry originates from a fragment that passes
\* the structural gate is_potential_heading and whose size is exactly the
\* H1, H2 or H3 value, at the tier with that size; no other fragment
\* produces an entry and no level is changed after classification.
C14_TierGateStructural ==
    Finished => TierGate("app")

\* C14: every outline entry originates from a fragment that passes the gate
\* its pipeline applies (is_potential_heading in extract_outline,
\* is_valid_heading in extract_pdf_outline) and whose size is exactly the
\* hierarchy's H1, H2 or H3 value, and its level is the tier with that size
\* (second-largest distinct size H1, third H2, fourth H3); a fragment at the
\* title-tier size, below the fourth-largest size or merely close to a tier
\* size produces no entry, and no level is changed after classification.
C14_TierGateOwnGate ==
    Finished => TierGate(impl)

\* all five sizes occur: the fragment at the largest size and the one at
\* size 10, one unit below the H3 size 11, produce no entry, and the
\* outline has the entries of the H2 and H3 tiers
C14_Witness ==
    /\ Finished
    /\ impl = "app"
    /\ FontSizes(text_blocks) = {24, 18, 14, 11, 10}
    /\ font_hierarchy["H3"] = 11
    /\ [level |-> "H2", text |-> strip(ScopeText), page |-> 1] \in
           {result.outline[k] : k \in 1..Len(result.outline)}
    /\ [level |-> "H3", text |-> strip(ScopeText), page |-> 1] \in
           {result.outline[k] : k \in 1..Len(result.outline)}
    /\ Len(result.outline) = 2

====
